---- MODULE Spec2Model ----
(***************************************************************************)
(* Model of the two scripts of the site:                                   *)
(*   src/assets/js/search.js  - the skill search box (index load, debounce,*)
(*                              search, render, keyboard and mouse state)  *)
(*   src/unnamed/part_000     - the random-number button                   *)
(* Strings are sequences of one-character strings.  Scores are counted in  *)
(* tenths, times in milliseconds.                                          *)
(***************************************************************************)
EXTENDS Integers, Sequences, FiniteSets, TLC

VARIABLES
  phase,               \* search.js: "loading" (init awaits the index), "ready" (listeners bound), "navigated" (a result link was followed)
  searchIndex,         \* search.js:15  "null" | "loaded"
  currentFocusIndex,   \* search.js:16
  searchResults,       \* search.js:17
  searchDropdown,      \* search.js:21  [noResults, items, show]
  inputValue,          \* searchInput.value
  inputFocused,        \* whether searchInput has the focus
  hoverRow,            \* row the pointer is inside (0-based), -1 if none
  timers,              \* pending debounce timeouts: remaining ms, oldest first
  sinceInput,          \* history: ms since the last handled input event (-1: none yet)
  searchedSinceInput,  \* history: debounced searches run since the last handled input event
  burstInputs,         \* history: handled input events each less than DELAY after the one before, up to the last one (counted to 2)
  lastEvent,           \* history: the step taken last
  closedState,         \* history: "closed" once Escape or an outside click has closed the shown dropdown, "timer" once a debounce timeout has expired after that, "no" from the next input or focus event on
  requests,            \* part_000: one record per click of the button
  resultText,          \* part_000: result.textContent
  settleOrder,         \* history: the requests in the order their handlers finished
  hlText, hlQuery, hlOut, hlDone   \* arguments and result of one highlightMatch call

vars == <<phase, searchIndex, currentFocusIndex, searchResults, searchDropdown,
          inputValue, inputFocused, hoverRow, timers, sinceInput,
          searchedSinceInput, burstInputs, lastEvent, closedState, requests,
          resultText, settleOrder,
          hlText, hlQuery, hlOut, hlDone>>

searchVars == <<phase, searchIndex, currentFocusIndex, searchResults, searchDropdown,
                inputValue, inputFocused, hoverRow, timers, sinceInput,
                searchedSinceInput, burstInputs, lastEvent, closedState>>

numberVars == <<requests, resultText, settleOrder>>

hlVars == <<hlText, hlQuery, hlOut, hlDone>>

----------------------------------------------------------------------------
(* Bounds of the model *)

MaxTextLen == 3
MaxQueryLen == 2
NumDocs == 9
MaxChain == 3
MaxTimers == 2
TickMs == 150
MaxClicks == 3

(* Constants of the program *)

DELAY == 300
RenderLimit == 8
MinQueryLen == 2
ScoreTolerance == 1

----------------------------------------------------------------------------
(* Small helpers *)

Min(a, b) == IF a < b THEN a ELSE b

Max(a, b) == IF a > b THEN a ELSE b

Abs(a) == IF a < 0 THEN 0 - a ELSE a

RECURSIVE Concat(_)
Concat(ss) == IF ss = <<>> THEN <<>> ELSE Head(ss) \o Concat(Tail(ss))

StringsUpTo(alphabet, n) == UNION {[1..k -> alphabet] : k \in 0..n}

----------------------------------------------------------------------------
(* String.prototype.trim *)

RECURSIVE TrimLeft(_)
TrimLeft(s) == IF s # <<>> /\ Head(s) = " " THEN TrimLeft(Tail(s)) ELSE s

RECURSIVE TrimRight(_)
TrimRight(s) ==
  IF s # <<>> /\ s[Len(s)] = " " THEN TrimRight(SubSeq(s, 1, Len(s) - 1)) ELSE s

Trim(s) == TrimRight(TrimLeft(s))

----------------------------------------------------------------------------
(* highlightMatch: escape the query, compile it as a global case-insensitive *)
(* regular expression, wrap every match in <mark> ... </mark>.               *)

Alphabet == {"a", "A", "b", "."}

SpecialChars == {".", "*", "+", "?", "^", "$", "{", "}", "(", ")", "|", "[", "]", "\\"}

\* a mutant of EscapeRegExp: the query is used as a pattern unescaped
EscapeRegExpNone(query) == query

\* query.replace(/[.*+?^${}()|[\]\\]/g, '\\$&')
EscapeRegExp(query) ==
  Concat([i \in 1..Len(query) |->
            IF query[i] \in SpecialChars THEN <<"\\", query[i]>> ELSE <<query[i]>>])

\* new RegExp(pattern): the atoms of a pattern made of literals, escapes and dots
RECURSIVE RegExpAtoms(_)
RegExpAtoms(p) ==
  IF p = <<>> THEN <<>>
  ELSE IF Head(p) = "\\" /\ Len(p) >= 2
    THEN <<[any |-> FALSE, ch |-> p[2]]>> \o RegExpAtoms(SubSeq(p, 3, Len(p)))
  ELSE IF Head(p) = "."
    THEN <<[any |-> TRUE, ch |-> "."]>> \o RegExpAtoms(Tail(p))
  ELSE <<[any |-> FALSE, ch |-> Head(p)]>> \o RegExpAtoms(Tail(p))

\* the 'i' flag: characters are compared by their upper-case form
Canonicalize(ch) ==
  CASE ch = "a" -> "A"
    [] ch = "b" -> "B"
    [] OTHER -> ch

AtomMatches(atom, ch) == atom.any \/ Canonicalize(atom.ch) = Canonicalize(ch)

MatchAt(atoms, text, i) ==
  /\ i + Len(atoms) - 1 <= Len(text)
  /\ \A k \in 1..Len(atoms) : AtomMatches(atoms[k], text[i + k - 1])

\* text.replace(regex, '<mark>$1</mark>') with the 'g' flag, scanning from position i
RECURSIVE ReplaceFrom(_, _, _)
ReplaceFrom(text, atoms, i) ==
  IF i > Len(text) THEN <<>>
  ELSE IF MatchAt(atoms, text, i)
    THEN <<"<mark>">> \o SubSeq(text, i, i + Len(atoms) - 1) \o <<"</mark>">>
           \o ReplaceFrom(text, atoms, i + Len(atoms))
  ELSE <<text[i]>> \o ReplaceFrom(text, atoms, i + 1)

HighlightMatch(text, query) ==
  IF query = <<>> \/ text = <<>> THEN text
  ELSE ReplaceFrom(text, RegExpAtoms(EscapeRegExp(query)), 1)

----------------------------------------------------------------------------
(* One call of highlightMatch on arbitrary arguments *)

HlInit ==
  /\ hlText \in StringsUpTo(Alphabet, MaxTextLen)
  /\ hlQuery \in StringsUpTo(Alphabet, MaxQueryLen)
  /\ hlOut = <<>>
  /\ hlDone = FALSE

HlApply ==
  /\ ~hlDone
  /\ hlOut' = HighlightMatch(hlText, hlQuery)
  /\ hlDone' = TRUE
  /\ UNCHANGED <<hlText, hlQuery>>
  /\ UNCHANGED <<searchVars, numberVars>>

----------------------------------------------------------------------------
(* The search index and the library's search *)

Docs == 1..NumDocs

DocWeight(d) == ((d - 1) % 3) + 1

DocName(d) ==
  CASE d % 3 = 1 -> <<"a", "b">>
    [] d % 3 = 2 -> <<"A", "b", ".">>
    [] OTHER -> <<"b", "a", "b">>

DocDescription(d) == IF d % 2 = 0 THEN <<>> ELSE <<"b", ".", "a">>

Hit(d, s) == [id |-> d, score |-> s, weight |-> DocWeight(d)]

\* n hits of equal score
FlatHits(n) == [i \in 1..n |-> Hit(i, NumDocs)]

\* n hits whose scores are 0.2 apart
GapHits(n) == [i \in 1..n |-> Hit(i, 2 * (n - i + 1))]

\* n hits whose scores are 0.1 apart: a chain of near-equal scores
ChainHits(n) == [i \in 1..n |-> Hit(i, n - i + 1)]

\* what searchIndex.search(query, options) can do: return a hit list, best score
\* first, or throw
HitLists ==
  {FlatHits(n) : n \in {0, 1, NumDocs}} \cup {GapHits(MaxChain)}
    \cup {ChainHits(n) : n \in 2..MaxChain}

LibraryOutcomes ==
  {[throws |-> FALSE, hits |-> h] : h \in HitLists}
    \cup {[throws |-> TRUE, hits |-> <<>>]}

----------------------------------------------------------------------------
(* results.sort(comparator) *)

\* the comparator of performSearch
Compare(a, b) ==
  LET scoreDiff == b.score - a.score
  IN  IF Abs(scoreDiff) > ScoreTolerance THEN scoreDiff ELSE b.weight - a.weight

Elements(list) == {list[i] : i \in 1..Len(list)}

\* ECMAScript's "consistent comparison function" for the elements of list
Consistent(list) ==
  \A a, b, c \in Elements(list) :
    /\ (Compare(a, b) = 0 /\ Compare(b, c) = 0) => Compare(a, c) = 0
    /\ (Compare(a, b) < 0 /\ Compare(b, c) < 0) => Compare(a, c) < 0
    /\ (Compare(a, b) > 0 /\ Compare(b, c) > 0) => Compare(a, c) > 0

RECURSIVE InsertSorted(_, _)
InsertSorted(sorted, x) ==
  IF sorted = <<>> THEN <<x>>
  ELSE IF Compare(x, Head(sorted)) < 0 THEN <<x>> \o sorted
  ELSE <<Head(sorted)>> \o InsertSorted(Tail(sorted), x)

RECURSIVE StableSort(_)
StableSort(list) ==
  IF list = <<>> THEN <<>>
  ELSE InsertSorted(StableSort(SubSeq(list, 1, Len(list) - 1)), list[Len(list)])

Perms(list) ==
  {[i \in 1..Len(list) |-> list[p[i]]] : p \in Permutations(1..Len(list))}

\* Array.prototype.sort: the stable sorted order under a consistent comparator,
\* an implementation-defined order of the same elements otherwise
ArraySort(list) == IF Consistent(list) THEN {StableSort(list)} ELSE Perms(list)

\* the sort of performSearch, tabulated over the library's hit lists
SortedResults == [hits \in HitLists |-> ArraySort(hits)]

----------------------------------------------------------------------------
(* The dropdown *)

ClosedDropdown == [noResults |-> FALSE, items |-> <<>>, show |-> FALSE]

\* a mutant of SliceFirst: no truncation
SliceAll(list, k) == list

\* results.slice(0, k)
SliceFirst(list, k) == SubSeq(list, 1, Min(Len(list), k))

\* a mutant of ResultItem: the row at the focus index is not marked
ResultItemInactive(result, index, query, focusIndex) ==
  [result |-> result, query |-> query, active |-> FALSE]

\* one <a class="search-result-item"> of the dropdown: the result and the query it
\* was rendered for, and whether it carries the class 'active'
ResultItem(result, index, query, focusIndex) ==
  [result |-> result, query |-> query, active |-> (index = focusIndex)]

\* the texts of a row
ItemName(item) == HighlightMatch(DocName(item.result.id), item.query)

ItemDescription(item) == HighlightMatch(DocDescription(item.result.id), item.query)

ItemRelevance(item) == item.result.score * 10

RenderResults(results, query, focusIndex) ==
  IF Len(results) = 0
    THEN [noResults |-> TRUE, items |-> <<>>, show |-> TRUE]
    ELSE LET shown == SliceFirst(results, RenderLimit)
         IN  [noResults |-> FALSE,
              items |-> [i \in 1..Len(shown) |->
                           ResultItem(shown[i], i - 1, query, focusIndex)],
              show |-> TRUE]

UpdateActiveResult(items, focusIndex) ==
  [i \in 1..Len(items) |-> [items[i] EXCEPT !.active = (i - 1 = focusIndex)]]

Event(kind, arg, search) ==
  [kind |-> kind, arg |-> arg, search |-> search, shownBefore |-> searchDropdown.show]

----------------------------------------------------------------------------
(* search.js: state after the module is evaluated and init() has started *)

InputValues == {<<>>, <<" ", "a">>, <<"A", "b", " ">>}

Keys == {"ArrowDown", "ArrowUp", "Enter", "Escape", "Shift"}

SearchInit ==
  /\ phase = "loading"
  /\ searchIndex = "null"
  /\ currentFocusIndex = -1
  /\ searchResults = <<>>
  /\ searchDropdown = ClosedDropdown
  /\ inputValue = <<>>
  /\ inputFocused = FALSE
  /\ hoverRow = -1
  /\ timers = <<>>
  /\ sinceInput = -1
  /\ searchedSinceInput = 0
  /\ burstInputs = 0
  /\ closedState = "no"
  /\ lastEvent = [kind |-> "start", arg |-> "", search |-> "none", shownBefore |-> FALSE]

----------------------------------------------------------------------------
(* loadSearchIndex and the rest of init *)

LoadOutcomes == {"ok", "network", "http", "parse"}

\* a mutant of LoadSearchIndex: the index is set whatever the outcome
LoadSearchIndexAlways(outcome) == "loaded"

\* the value of searchIndex once loadSearchIndex has settled
LoadSearchIndex(outcome) == IF outcome = "ok" THEN "loaded" ELSE searchIndex

\* await loadSearchIndex() settles and init binds the listeners
LoadSettles(outcome) ==
  /\ phase = "loading"
  /\ searchIndex' = LoadSearchIndex(outcome)
  /\ phase' = "ready"
  /\ lastEvent' = Event("load", outcome, "none")
  /\ UNCHANGED <<currentFocusIndex, searchResults, searchDropdown, inputValue,
                 inputFocused, hoverRow, timers, sinceInput, searchedSinceInput, burstInputs, closedState>>
  /\ UNCHANGED <<numberVars, hlVars>>

\* a mutant of ListenersBound: init binds the listeners without awaiting the load
ListenersBoundAtOnce == phase # "navigated"

\* the listeners of init exist once await loadSearchIndex() has settled
ListenersBound == phase = "ready"

----------------------------------------------------------------------------
(* performSearch *)

SearchTag(query, outcome) ==
  IF searchIndex = "null" THEN "noindex"
  ELSE IF Len(query) < MinQueryLen THEN "short"
  ELSE IF outcome.throws THEN "threw"
  ELSE "rendered"

\* a mutant of SearchFailed: the catch block closes the dropdown
SearchFailedCloses ==
  /\ searchDropdown' = ClosedDropdown
  /\ UNCHANGED <<searchResults, currentFocusIndex, hoverRow>>

\* the catch block of performSearch: the error is logged
SearchFailed ==
  UNCHANGED <<searchResults, searchDropdown, currentFocusIndex, hoverRow>>

\* a mutant of ShortQuery: the dropdown is hidden but keeps its rows
ShortQueryKeepsRows ==
  /\ searchDropdown' = [searchDropdown EXCEPT !.show = FALSE]
  /\ searchResults' = <<>>
  /\ currentFocusIndex' = -1
  /\ hoverRow' = IF searchDropdown.items = <<>> THEN -1 ELSE hoverRow

\* the branch of performSearch for a query of fewer than 2 characters
ShortQuery ==
  /\ searchDropdown' = ClosedDropdown
  /\ searchResults' = <<>>
  /\ currentFocusIndex' = -1
  /\ hoverRow' = -1

PerformSearch(query, outcome) ==
  IF searchIndex = "null"
    THEN UNCHANGED <<searchResults, searchDropdown, currentFocusIndex, hoverRow>>
  ELSE IF Len(query) < MinQueryLen
    THEN ShortQuery
  ELSE IF outcome.throws
    THEN SearchFailed
  ELSE \E sorted \in SortedResults[outcome.hits] :
         /\ searchResults' = sorted
         /\ searchDropdown' = RenderResults(sorted, Trim(inputValue), currentFocusIndex)
         /\ hoverRow' = -1
         /\ UNCHANGED currentFocusIndex

----------------------------------------------------------------------------
(* debounce *)

\* a mutant of ClearTimeout: the pending timeout is left running
ClearTimeoutSkipped(pending) == pending

\* clearTimeout(timer): the timeout set by the previous call, if still pending
ClearTimeout(pending) ==
  IF pending = <<>> THEN pending ELSE SubSeq(pending, 1, Len(pending) - 1)

\* the function debounce returns: clearTimeout, then setTimeout(..., delay)
Debounced(pending, delay) == Append(ClearTimeout(pending), delay)

\* an input event on the search box; the listener exists once init has bound it
InputEvent(value) ==
  /\ phase # "navigated"
  /\ inputFocused
  /\ inputValue' = value
  /\ IF ListenersBound
       THEN /\ Len(Debounced(timers, DELAY)) <= MaxTimers
            /\ timers' = Debounced(timers, DELAY)
            /\ sinceInput' = 0
            /\ searchedSinceInput' = 0
            /\ burstInputs' = IF sinceInput >= 0 /\ sinceInput < DELAY
                                THEN Min(burstInputs + 1, 2) ELSE 1
            /\ closedState' = "no"
       ELSE UNCHANGED <<timers, sinceInput, searchedSinceInput, burstInputs, closedState>>
  /\ lastEvent' = Event("input", IF ListenersBound THEN "handled" ELSE "unbound", "none")
  /\ UNCHANGED <<phase, searchIndex, currentFocusIndex, searchResults,
                 searchDropdown, inputFocused, hoverRow>>
  /\ UNCHANGED <<numberVars, hlVars>>

\* a debounce timeout expires: query = e.target.value.trim(); performSearch(query)
TimerFires(outcome) ==
  /\ phase = "ready"
  /\ timers # <<>>
  /\ Head(timers) = 0
  /\ timers' = Tail(timers)
  /\ PerformSearch(Trim(inputValue), outcome)
  /\ searchedSinceInput' = Min(searchedSinceInput + 1, 2)
  /\ lastEvent' = Event("timer", Trim(inputValue), SearchTag(Trim(inputValue), outcome))
  /\ closedState' = IF closedState = "closed" THEN "timer" ELSE closedState
  /\ UNCHANGED <<phase, searchIndex, inputValue, inputFocused, sinceInput, burstInputs>>
  /\ UNCHANGED <<numberVars, hlVars>>

\* time passes, up to the next expiry
Tick ==
  /\ phase # "navigated"
  /\ LET step == IF timers = <<>> THEN TickMs ELSE Min(TickMs, Head(timers))
     IN  /\ step > 0
         /\ timers' = [i \in 1..Len(timers) |-> timers[i] - step]
         /\ sinceInput' = IF sinceInput = -1 THEN -1
                          ELSE Min(sinceInput + step, DELAY + 1)
  /\ lastEvent' = Event("tick", "", "none")
  /\ UNCHANGED <<phase, searchIndex, currentFocusIndex, searchResults, searchDropdown,
                 inputValue, inputFocused, hoverRow, searchedSinceInput, burstInputs, closedState>>
  /\ UNCHANGED <<numberVars, hlVars>>

----------------------------------------------------------------------------
(* focus and blur of the search box *)

\* the input gains the focus; the focus listener searches again for a query of
\* 2 characters or more
FocusEvent(outcome) ==
  /\ phase # "navigated"
  /\ ~inputFocused
  /\ inputFocused' = TRUE
  /\ closedState' = "no"
  /\ IF ListenersBound /\ Len(Trim(inputValue)) >= MinQueryLen
       THEN /\ PerformSearch(Trim(inputValue), outcome)
            /\ lastEvent' = Event("focus", "handled", SearchTag(Trim(inputValue), outcome))
       ELSE /\ UNCHANGED <<searchResults, searchDropdown, currentFocusIndex, hoverRow>>
            /\ lastEvent' = Event("focus", IF ListenersBound THEN "handled" ELSE "unbound", "none")
  /\ UNCHANGED <<phase, searchIndex, inputValue, timers, sinceInput, searchedSinceInput, burstInputs>>
  /\ UNCHANGED <<numberVars, hlVars>>

\* the focus leaves the input (Tab); no listener
BlurEvent ==
  /\ phase # "navigated"
  /\ inputFocused
  /\ inputFocused' = FALSE
  /\ lastEvent' = Event("blur", "", "none")
  /\ UNCHANGED <<phase, searchIndex, currentFocusIndex, searchResults, searchDropdown,
                 inputValue, hoverRow, timers, sinceInput, searchedSinceInput, burstInputs, closedState>>
  /\ UNCHANGED <<numberVars, hlVars>>

----------------------------------------------------------------------------
(* handleKeyboardNavigation *)

\* a mutant of EscapeKey: the dropdown is hidden but keeps its rows
EscapeKeyHidesOnly ==
  /\ searchDropdown' = [searchDropdown EXCEPT !.show = FALSE]
  /\ inputFocused' = FALSE
  /\ currentFocusIndex' = -1
  /\ hoverRow' = hoverRow

\* case 'Escape' of handleKeyboardNavigation
EscapeKey ==
  /\ searchDropdown' = ClosedDropdown
  /\ inputFocused' = FALSE
  /\ currentFocusIndex' = -1
  /\ hoverRow' = -1

KeyDown(key) ==
  /\ ListenersBound
  /\ inputFocused
  /\ lastEvent' = Event("keydown", key, "none")
  /\ closedState' = IF key = "Escape" /\ Len(searchDropdown.items) # 0
                       THEN "closed" ELSE closedState
  /\ LET resultItems == searchDropdown.items
         n == Len(resultItems)
     IN  IF n = 0
           THEN UNCHANGED <<phase, currentFocusIndex, searchDropdown, inputFocused, hoverRow>>
         ELSE CASE key = "ArrowDown" ->
                     /\ currentFocusIndex' = Min(currentFocusIndex + 1, n - 1)
                     /\ searchDropdown' =
                          [searchDropdown EXCEPT
                             !.items = UpdateActiveResult(resultItems, currentFocusIndex')]
                     /\ UNCHANGED <<phase, inputFocused, hoverRow>>
                [] key = "ArrowUp" ->
                     /\ currentFocusIndex' = Max(currentFocusIndex - 1, -1)
                     /\ searchDropdown' =
                          [searchDropdown EXCEPT
                             !.items = UpdateActiveResult(resultItems, currentFocusIndex')]
                     /\ UNCHANGED <<phase, inputFocused, hoverRow>>
                [] key = "Enter" ->
                     \* activeItem.click(): the document's click listener finds the
                     \* target inside the dropdown, then the link is followed
                     /\ phase' = IF currentFocusIndex >= 0 /\ currentFocusIndex < n
                                   THEN "navigated" ELSE phase
                     /\ UNCHANGED <<currentFocusIndex, searchDropdown, inputFocused, hoverRow>>
                [] key = "Escape" -> EscapeKey /\ UNCHANGED phase
                [] OTHER ->
                     UNCHANGED <<phase, currentFocusIndex, searchDropdown, inputFocused, hoverRow>>
  /\ UNCHANGED <<searchIndex, searchResults, inputValue, timers, sinceInput,
                 searchedSinceInput, burstInputs>>
  /\ UNCHANGED <<numberVars, hlVars>>

----------------------------------------------------------------------------
(* bindResultEvents: the listeners of the rendered rows *)

MouseEnter(index) ==
  /\ ListenersBound
  /\ hoverRow = -1
  /\ index \in 0..(Len(searchDropdown.items) - 1)
  /\ searchDropdown' =
       [searchDropdown EXCEPT
          !.items = [i \in 1..Len(searchDropdown.items) |->
                       [searchDropdown.items[i] EXCEPT !.active = (i - 1 = index)]]]
  /\ currentFocusIndex' = index
  /\ hoverRow' = index
  /\ lastEvent' = Event("mouseenter", "", "none")
  /\ UNCHANGED <<phase, searchIndex, searchResults, inputValue, inputFocused, timers,
                 sinceInput, searchedSinceInput, burstInputs, closedState>>
  /\ UNCHANGED <<numberVars, hlVars>>

MouseLeave ==
  /\ ListenersBound
  /\ hoverRow # -1
  /\ searchDropdown' = [searchDropdown EXCEPT !.items[hoverRow + 1].active = FALSE]
  /\ currentFocusIndex' = -1
  /\ hoverRow' = -1
  /\ lastEvent' = Event("mouseleave", "", "none")
  /\ UNCHANGED <<phase, searchIndex, searchResults, inputValue, inputFocused, timers,
                 sinceInput, searchedSinceInput, burstInputs, closedState>>
  /\ UNCHANGED <<numberVars, hlVars>>

----------------------------------------------------------------------------
(* the document's click listener *)

ClickTargets == {"outside", "input", "result", "message"}

\* a mutant of OutsideClick: the dropdown is hidden but keeps its rows
OutsideClickHidesOnly ==
  IF ListenersBound
    THEN /\ searchDropdown' = [searchDropdown EXCEPT !.show = FALSE]
         /\ currentFocusIndex' = -1
    ELSE UNCHANGED <<searchDropdown, currentFocusIndex>>

\* the click listener, for a target outside the input and the dropdown
OutsideClick ==
  IF ListenersBound
    THEN /\ searchDropdown' = ClosedDropdown
         /\ currentFocusIndex' = -1
    ELSE UNCHANGED <<searchDropdown, currentFocusIndex>>

Click(target) ==
  /\ phase # "navigated"
  /\ lastEvent' = Event("click", target, "none")
  /\ closedState' = IF target = "outside" /\ ListenersBound /\ searchDropdown.show
                       THEN "closed" ELSE closedState
  /\ CASE target = "outside" ->
            /\ hoverRow = -1
            /\ inputFocused' = FALSE
            /\ OutsideClick
            /\ UNCHANGED <<phase, hoverRow>>
       [] target = "input" ->
            /\ hoverRow = -1
            /\ inputFocused
            /\ UNCHANGED <<phase, searchDropdown, currentFocusIndex, inputFocused, hoverRow>>
       [] target = "result" ->
            \* a row is a link: the listener leaves the state alone, the link is followed
            /\ hoverRow # -1
            /\ phase' = "navigated"
            /\ UNCHANGED <<searchDropdown, currentFocusIndex, inputFocused, hoverRow>>
       [] target = "message" ->
            \* the no-results message, inside the dropdown
            /\ searchDropdown.show /\ searchDropdown.noResults
            /\ inputFocused' = FALSE
            /\ UNCHANGED <<phase, searchDropdown, currentFocusIndex, hoverRow>>
  /\ UNCHANGED <<searchIndex, searchResults, inputValue, timers, sinceInput,
                 searchedSinceInput, burstInputs>>
  /\ UNCHANGED <<numberVars, hlVars>>

----------------------------------------------------------------------------
(* part_000: the button that fetches a number *)

FailureMessage == "fetch failed"    \* stands for the fixed text '取得失敗'

Bodies == {"null", "no number", "7", "42"}    \* parsed response bodies

NumberMessage(data) == [kind |-> "number", value |-> IF data = "no number" THEN "undefined" ELSE data]

InitialText == [kind |-> "initial", value |-> ""]

FailureText == [kind |-> "failure", value |-> FailureMessage]

\* the handler of this click has not finished yet
Outstanding(request) == request.stage \in {"fetching", "parsing"}

NumberInit ==
  /\ requests = <<>>
  /\ resultText = InitialText
  /\ settleOrder = <<>>

\* click: the handler starts fetch('/api/number')
ButtonClick ==
  /\ Len(requests) < MaxClicks
  /\ requests' = Append(requests, [stage |-> "fetching", wrote |-> "nothing", outcome |-> InitialText,
                                    concurrent |-> \E q \in 1..Len(requests) : Outstanding(requests[q])])
  /\ UNCHANGED <<resultText, settleOrder>>
  /\ UNCHANGED <<searchVars, hlVars>>

\* fetch resolves with a response: the handler goes on to resp.json()
FetchResolves(r) ==
  /\ r \in 1..Len(requests)
  /\ requests[r].stage = "fetching"
  /\ requests' = [requests EXCEPT ![r].stage = "parsing"]
  /\ UNCHANGED <<resultText, settleOrder>>
  /\ UNCHANGED <<searchVars, hlVars>>

\* a mutant of CatchBlock: the failure is swallowed
CatchBlockSilent(r) ==
  /\ UNCHANGED resultText
  /\ requests' = [requests EXCEPT ![r] = [requests[r] EXCEPT !.stage = "failed", !.wrote = "nothing", !.outcome = FailureText]]
  /\ settleOrder' = Append(settleOrder, r)

\* the catch block
CatchBlock(r) ==
  /\ resultText' = FailureText
  /\ requests' = [requests EXCEPT ![r] = [requests[r] EXCEPT !.stage = "failed", !.wrote = "failure", !.outcome = FailureText]]
  /\ settleOrder' = Append(settleOrder, r)

\* a mutant of WriteNumber: only the most recent click's response is shown
WriteNumberIfLatest(r, data) ==
  /\ resultText' = IF r = Len(requests) THEN NumberMessage(data) ELSE resultText
  /\ requests' = [requests EXCEPT ![r] = [requests[r] EXCEPT !.stage = "done", !.wrote = "number", !.outcome = NumberMessage(data)]]
  /\ settleOrder' = Append(settleOrder, r)

\* the number message is written to the result element
WriteNumber(r, data) ==
  /\ resultText' = NumberMessage(data)
  /\ requests' = [requests EXCEPT ![r] = [requests[r] EXCEPT !.stage = "done", !.wrote = "number", !.outcome = NumberMessage(data)]]
  /\ settleOrder' = Append(settleOrder, r)

\* fetch rejects
FetchRejects(r) ==
  /\ r \in 1..Len(requests)
  /\ requests[r].stage = "fetching"
  /\ CatchBlock(r)
  /\ UNCHANGED <<searchVars, hlVars>>

\* resp.json() rejects: the body is not JSON
JsonRejects(r) ==
  /\ r \in 1..Len(requests)
  /\ requests[r].stage = "parsing"
  /\ CatchBlock(r)
  /\ UNCHANGED <<searchVars, hlVars>>

\* resp.json() resolves with data; data.number throws when data is null
JsonResolves(r, data) ==
  /\ r \in 1..Len(requests)
  /\ requests[r].stage = "parsing"
  /\ IF data = "null"
       THEN CatchBlock(r)
       ELSE WriteNumber(r, data)
  /\ UNCHANGED <<searchVars, hlVars>>

----------------------------------------------------------------------------
(* Specifications *)

Next ==
  \/ \E outcome \in LoadOutcomes : LoadSettles(outcome)
  \/ \E value \in InputValues : InputEvent(value)
  \/ \E outcome \in LibraryOutcomes : TimerFires(outcome)
  \/ Tick
  \/ \E outcome \in LibraryOutcomes : FocusEvent(outcome)
  \/ BlurEvent
  \/ \E key \in Keys : KeyDown(key)
  \/ \E index \in 0..(RenderLimit - 1) : MouseEnter(index)
  \/ MouseLeave
  \/ \E target \in ClickTargets : Click(target)

Init == SearchInit /\ NumberInit /\ hlText = <<>> /\ hlQuery = <<>> /\ hlOut = <<>> /\ hlDone = TRUE

\* the search box
Spec == Init /\ [][Next]_vars

NumNext ==
  \/ ButtonClick
  \/ \E r \in 1..MaxClicks : FetchResolves(r)
  \/ \E r \in 1..MaxClicks : FetchRejects(r)
  \/ \E r \in 1..MaxClicks : JsonRejects(r)
  \/ \E r \in 1..MaxClicks, data \in Bodies : JsonResolves(r, data)

\* the number button
NumSpec == Init /\ [][NumNext]_vars

HighlightInit == SearchInit /\ NumberInit /\ HlInit

HighlightNext == HlApply

\* one call of highlightMatch
HighlightSpec == HighlightInit /\ [][HighlightNext]_vars

----------------------------------------------------------------------------
(* Properties *)

ItemResults == [i \in 1..Len(searchDropdown.items) |-> searchDropdown.items[i].result]

\* C1: in every state in which the dropdown is shown (rows or the no-results
\* message), an Escape keydown on the search input leaves the dropdown empty and
\* hidden, blurs the input and sets currentFocusIndex to -1.
C1_EscapeClearsDropdown ==
  [][(searchDropdown.show /\ lastEvent'.kind = "keydown" /\ lastEvent'.arg = "Escape")
       => /\ searchDropdown' = ClosedDropdown
          /\ inputFocused' = FALSE
          /\ currentFocusIndex' = -1]_vars

\* C2: with at least one row displayed, after an ArrowDown or ArrowUp keydown is
\* handled, -1 <= currentFocusIndex <= (number of rows displayed) - 1.
C2_ArrowKeysClampFocus ==
  [][(/\ lastEvent'.kind = "keydown"
      /\ lastEvent'.arg \in {"ArrowDown", "ArrowUp"}
      /\ Len(searchDropdown.items) >= 1)
       => /\ -1 <= currentFocusIndex'
          /\ currentFocusIndex' <= Len(searchDropdown'.items) - 1]_vars

\* C3: whenever a search has just run, with the index loaded, for a trimmed
\* query of length 0 or 1, the dropdown is empty and hidden, searchResults is
\* empty and currentFocusIndex is -1.  (The focus listener never searches for
\* such a query; the debounced input listener searches on every expiry.)
C3_ShortQueryNoDropdown ==
  (/\ lastEvent.kind \in {"timer", "focus"}
   /\ lastEvent.search # "none"
   /\ searchIndex = "loaded"
   /\ Len(Trim(inputValue)) < 2)
    => /\ searchDropdown.items = <<>>
       /\ ~searchDropdown.noResults
       /\ ~searchDropdown.show
       /\ searchResults = <<>>
       /\ currentFocusIndex = -1

\* C3 witness: a search for a one-character query has just run while the
\* dropdown was shown
C3_Witness ==
  /\ lastEvent.kind = "timer"
  /\ lastEvent.shownBefore
  /\ searchIndex = "loaded"
  /\ Len(Trim(inputValue)) = 1
  /\ ~searchDropdown.show

\* C4: the dropdown never holds more than 8 rows, and right after a render of
\* the sorted list searchResults the rows are its first min(n, 8) results, in
\* the same order.
C4_TruncatedToEight ==
  /\ Len(searchDropdown.items) <= 8
  /\ lastEvent.search = "rendered"
       => ItemResults = SubSeq(searchResults, 1, Min(Len(searchResults), 8))

\* C4 witness: a list of more than 8 results has just been rendered
C4_Witness ==
  /\ lastEvent.search = "rendered"
  /\ Len(searchResults) > 8
  /\ Len(searchDropdown.items) = 8
  /\ searchDropdown.show

\* C5: after a failed index load searchIndex stays null; every later search
\* invocation leaves the dropdown, searchResults and currentFocusIndex unchanged,
\* and the dropdown is never shown.
C5_FailedLoadDisablesSearch ==
  /\ [][(lastEvent'.kind = "load" /\ lastEvent'.arg # "ok") => searchIndex' = "null"]_vars
  /\ [][(phase = "ready" /\ searchIndex = "null") => searchIndex' = "null"]_vars
  /\ [][(/\ searchIndex = "null"
         /\ lastEvent'.kind \in {"timer", "focus"})
          => UNCHANGED <<searchDropdown, searchResults, currentFocusIndex>>]_vars
  /\ []((phase = "ready" /\ searchIndex = "null")
          => (~searchDropdown.show /\ searchDropdown.items = <<>>))

\* C5 witness: after a failed load, a debounced search for a query of 2
\* characters has just been invoked
C5_Witness ==
  /\ phase = "ready"
  /\ searchIndex = "null"
  /\ lastEvent.kind = "timer"
  /\ lastEvent.search = "noindex"
  /\ Len(Trim(inputValue)) >= 2
  /\ ~searchDropdown.show

\* C6: for input events each less than 300 ms after the one before, no search
\* runs inside the 300 ms after any of them, exactly one search runs for the
\* sequence, 300 ms after its last event, and its query is the trimmed value the
\* input holds then.  (Timeouts are taken to expire on time; the searches
\* counted are those of the debounced input listener, not the focus listener's.)
C6_DebounceCoalesces ==
  /\ []((phase = "ready" /\ sinceInput >= 0 /\ sinceInput < 300) => searchedSinceInput = 0)
  /\ []((phase = "ready" /\ sinceInput > 300) => searchedSinceInput = 1)
  /\ []((phase = "ready" /\ sinceInput >= 0 /\ searchedSinceInput = 0)
          => (Len(timers) = 1 /\ timers[1] = 300 - sinceInput))
  /\ [][lastEvent'.kind = "timer"
          => /\ sinceInput = 300
             /\ searchedSinceInput = 0
             /\ searchedSinceInput' = 1
             /\ timers' = <<>>
             /\ lastEvent'.arg = Trim(inputValue')
             /\ (searchIndex = "loaded"
                   => (lastEvent'.search = "short" <=> Len(Trim(inputValue')) < 2))]_vars

\* C6 witness: two or more input events in quick succession, one search, 300 ms
\* after the last of them
C6_Witness ==
  /\ lastEvent.kind = "timer"
  /\ burstInputs = 2
  /\ sinceInput = 300
  /\ searchedSinceInput = 1
  /\ lastEvent.search = "rendered"

AllRequests == 1..Len(requests)

\* C7: a request that fails (fetch rejects, or the body cannot be parsed) sets
\* the result text to the failure message, and sets no number message.
C7_FailureMessage ==
  /\ [][\A r \in AllRequests :
          (requests[r].stage # "failed" /\ requests'[r].stage = "failed")
            => resultText' = [kind |-> "failure", value |-> "fetch failed"]]_vars
  /\ [](\A r \in AllRequests : requests[r].stage = "failed" => requests[r].wrote = "failure")

\* C7 witness: the second of two requests has failed after the first showed a
\* number, and the text is the failure message
C7_Witness ==
  /\ Len(requests) >= 2
  /\ requests[1].stage = "done"
  /\ requests[2].stage = "failed"
  /\ resultText.kind = "failure"

Markers == {"<mark>", "</mark>"}

StripMarkers(out) == SelectSeq(out, LAMBDA t : t \notin Markers)

LowerCase(ch) ==
  CASE ch = "A" -> "a"
    [] ch = "B" -> "b"
    [] OTHER -> ch

SameIgnoringCase(s, t) ==
  /\ Len(s) = Len(t)
  /\ \A i \in 1..Len(s) : LowerCase(s[i]) = LowerCase(t[i])

\* every <mark> is closed Len(query) characters later, around a copy of query
MarkedSegmentsMatch(out, query) ==
  /\ \A i \in 1..Len(out) :
       out[i] = "<mark>" =>
         /\ i + Len(query) + 1 <= Len(out)
         /\ out[i + Len(query) + 1] = "</mark>"
         /\ SameIgnoringCase(SubSeq(out, i + 1, i + Len(query)), query)
  /\ \A i \in 1..Len(out) :
       out[i] = "</mark>" => (i > Len(query) + 1 /\ out[i - Len(query) - 1] = "<mark>")

\* C8: removing the inserted markers from highlightMatch(text, query) yields
\* text, every marked segment equals query ignoring letter case, and an empty
\* query or text returns text unchanged.
C8_HighlightKeepsText ==
  hlDone =>
    /\ StripMarkers(hlOut) = hlText
    /\ MarkedSegmentsMatch(hlOut, hlQuery)
    /\ (hlQuery = <<>> \/ hlText = <<>>) => hlOut = hlText

\* C8 witness: a match that differs from the query in letter case, with a
\* special character in the query
C8_Witness ==
  /\ hlDone
  /\ hlQuery = <<"a", ".">>
  /\ hlText = <<"A", ".", "b">>
  /\ hlOut = <<"<mark>", "A", ".", "</mark>", "b">>

\* C9: when the library's search throws inside performSearch, searchResults,
\* the dropdown and currentFocusIndex are left as they were, and the listeners
\* stay bound.
C9_SearchErrorCaught ==
  [][lastEvent'.search = "threw"
       => /\ UNCHANGED <<searchResults, searchDropdown, currentFocusIndex>>
          /\ phase' = "ready"]_vars

\* C9 witness: the search has just thrown while rows were displayed
C9_Witness ==
  /\ lastEvent.search = "threw"
  /\ searchDropdown.show
  /\ Len(searchDropdown.items) >= 2
  /\ searchResults # <<>>

\* C10: for every pair of results in searchResults, if their scores differ by
\* more than 0.1 the higher-scored one comes first, and otherwise the one with
\* the greater weight comes first.
C10_SortedByScoreThenWeight ==
  \A i, j \in 1..Len(searchResults) :
    LET a == searchResults[i]
        b == searchResults[j]
    IN  /\ a.score - b.score > 1 => i < j
        /\ (Abs(a.score - b.score) <= 1 /\ a.weight > b.weight) => i < j

\* C11: in every reachable state a displayed row carries the class 'active'
\* if and only if its position equals currentFocusIndex.
C11_ActiveMatchesFocus ==
  \A i \in 1..Len(searchDropdown.items) :
    searchDropdown.items[i].active <=> (i - 1 = currentFocusIndex)

\* C12: whenever performSearch has just rendered the results of a query (of any
\* length, with zero or more hits), currentFocusIndex is -1.
C12_RenderResetsFocus ==
  lastEvent.search \in {"rendered", "short"} => currentFocusIndex = -1

\* C12 as amended: a search for a query of fewer than 2 characters sets
\* currentFocusIndex to -1; a search that renders a result list leaves
\* currentFocusIndex as it was, and marks the row at that position, if there is
\* one, as active.
C12_RenderKeepsFocus ==
  /\ [][lastEvent'.search = "short" => currentFocusIndex' = -1]_vars
  /\ [][lastEvent'.search = "rendered"
          => /\ currentFocusIndex' = currentFocusIndex
             /\ \A i \in 1..Len(searchDropdown'.items) :
                  searchDropdown'.items[i].active <=> (i - 1 = currentFocusIndex)]_vars

\* C12 witness: a list has just been rendered with the selection of the list
\* before it carried over to its second row
C12_Witness ==
  /\ lastEvent.search = "rendered"
  /\ lastEvent.shownBefore
  /\ currentFocusIndex = 1
  /\ Len(searchDropdown.items) >= 2
  /\ searchDropdown.items[2].active

\* C13: once Escape or a click outside has closed the dropdown, it stays empty
\* and hidden until a later input or focus event occurs.
C13_ClosedStaysClosed ==
  closedState \in {"closed", "timer"}
    => /\ searchDropdown.items = <<>>
       /\ ~searchDropdown.noResults
       /\ ~searchDropdown.show

\* C13 as amended: once Escape or a click outside has closed the dropdown, it
\* stays empty and hidden until a later input or focus event occurs or a
\* debounce timeout expires; a timeout that was pending when the dropdown was
\* closed is not cancelled.
C13_ClosedUntilTimer ==
  /\ [](closedState = "closed"
          => /\ searchDropdown.items = <<>>
             /\ ~searchDropdown.noResults
             /\ ~searchDropdown.show)
  /\ [][(timers # <<>> /\ lastEvent'.kind \in {"keydown", "click"}) => timers' = timers]_vars

\* C13 witness: Escape has closed a dropdown with rows while a debounce timeout
\* was pending
C13_Witness ==
  /\ closedState = "closed"
  /\ lastEvent.kind = "keydown"
  /\ lastEvent.shownBefore
  /\ ~searchDropdown.show
  /\ timers # <<>>

\* C14: a click outside the input and the dropdown empties and hides the
\* dropdown and sets currentFocusIndex to -1, leaving searchResults and the input
\* text unchanged; a click inside the input or the dropdown leaves the dropdown,
\* currentFocusIndex and searchResults unchanged.
C14_ClickFrame ==
  [][lastEvent'.kind = "click"
       => IF lastEvent'.arg = "outside"
            THEN /\ searchDropdown'.items = <<>>
                 /\ ~searchDropdown'.noResults
                 /\ ~searchDropdown'.show
                 /\ currentFocusIndex' = -1
                 /\ UNCHANGED <<searchResults, inputValue>>
            ELSE UNCHANGED <<searchDropdown, currentFocusIndex, searchResults>>]_vars

\* C14 witness: a click outside has just closed a dropdown with rows, one of
\* them selected
C14_Witness ==
  /\ lastEvent.kind = "click"
  /\ lastEvent.arg = "outside"
  /\ lastEvent.shownBefore
  /\ searchResults # <<>>
  /\ inputValue # <<>>
  /\ ~searchDropdown.show

\* C15: the listeners are bound only once loadSearchIndex has settled: while the
\* download is in flight no event is handled, no timeout is set and no search
\* runs, and the 'index not loaded' branch of performSearch is taken only after
\* a failed load.
C15_ListenersAfterLoad ==
  /\ [](phase = "loading"
          => /\ timers = <<>>
             /\ lastEvent.search = "none"
             /\ lastEvent.kind \in {"input", "focus"} => lastEvent.arg = "unbound"
             /\ lastEvent.kind \notin {"keydown", "timer", "mouseenter", "mouseleave"}
             /\ searchDropdown = ClosedDropdown)
  /\ [][lastEvent'.search # "none" => (phase = "ready" /\ phase' = "ready")]_vars
  /\ [][(lastEvent'.kind = "load" /\ lastEvent'.arg = "ok") => searchIndex' = "loaded"]_vars
  /\ [][searchIndex = "loaded" => searchIndex' = "loaded"]_vars
  /\ [](lastEvent.search = "noindex" => (phase = "ready" /\ searchIndex = "null"))

\* C15 witness: a query was typed while the index was still loading, and nothing
\* was scheduled
C15_Witness ==
  /\ phase = "loading"
  /\ lastEvent.kind = "input"
  /\ lastEvent.arg = "unbound"
  /\ Len(Trim(inputValue)) >= 2
  /\ timers = <<>>

AllSettled == \A r \in AllRequests : ~Outstanding(requests[r])

\* C16: when the button was clicked while earlier requests were outstanding,
\* then once all requests have settled the result text shows the outcome of the
\* most recent click, whatever order the responses arrive in.
C16_LatestClickWins ==
  (/\ AllSettled
   /\ \E r \in AllRequests : requests[r].concurrent)
    => resultText = requests[Len(requests)].outcome

\* C16 as amended: the result text always shows the outcome of the request
\* whose handler finished last (the initial text before any has finished), so
\* once all requests have settled it shows the outcome of the response that
\* arrived last, which need not belong to the most recent click.
C16_LastSettledWins ==
  resultText = IF settleOrder = <<>>
                 THEN InitialText
                 ELSE requests[settleOrder[Len(settleOrder)]].outcome

\* C16 witness: two overlapping requests settled in the reverse order of their
\* clicks with different outcomes, and the text shows the first click's outcome
C16_Witness ==
  /\ Len(requests) = 2
  /\ AllSettled
  /\ requests[2].concurrent
  /\ settleOrder = <<2, 1>>
  /\ requests[1].outcome # requests[2].outcome
  /\ resultText = requests[1].outcome

====
